---- MODULE Spec2Model ----
(***************************************************************************)
(* lichen: the execution core of the installer.                            *)
(*                                                                         *)
(*   lichen_cli/src/main.rs                   CliContext (run_command,     *)
(*                                            run_command_captured) and    *)
(*                                            the driver loops of main     *)
(*   crates/installer/src/steps/partitions.rs FormatPartition,             *)
(*                                            MountPartition, BindMount,   *)
(*                                            Unmount, SyncFS              *)
(*                                                                         *)
(* Three specifications share the context actions:                         *)
(*   Spec     one run of the driver over a compiled plan;                  *)
(*   SpecCtx  direct calls of the two context operations, with and         *)
(*            without stdin input;                                         *)
(*   SpecPipe run_command_captured against pipes of bounded capacity and   *)
(*            a child that reads its stdin to end-of-file.                 *)
(*                                                                         *)
(* The operating system is the environment: whether a spawn, a write, a    *)
(* wait or a directory creation succeeds, and the exit status of each      *)
(* tool, are nondeterministic choices.  The progress-bar calls of main     *)
(* (indicatif) are taken to succeed.                                       *)
(***************************************************************************)
EXTENDS Integers, Sequences, FiniteSets, TLC

\* ------------------------------------------------------------------ bounds

\* Bind mounts a compiled plan holds at most.
MaxBinds == 2

\* Bytes of stdin input a direct call supplies at most.
MaxInput == 2

\* Direct context calls one harness run makes at most.
MaxCalls == 2

\* Bytes an operating-system pipe buffers before a write to it blocks.
PipeCap == 1

\* ------------------------------------------------------------- data values

Device == "/dev/sda2"

Root == "/tmp/lichen"

BindSources == <<"/dev", "/proc", "/sys", "/run">>

\* PathBuf::join of the root with a bind source.
BindDest(src) ==
    CASE src = "/dev" -> "/tmp/lichen/dev"
      [] src = "/proc" -> "/tmp/lichen/proc"
      [] src = "/sys" -> "/tmp/lichen/sys"
      [] OTHER -> "/tmp/lichen/run"

\* q lies strictly below p in the directory tree.
Nested(p, q) ==
    /\ p = Root
    /\ q \in {BindDest(BindSources[k]) : k \in 1..Len(BindSources)}

FsNames == {"ext4", "EXT4", "Ext4", "btrfs"}

\* Mutant of to_lowercase: the name is left as given.
to_lowercase_missing(s) == s

\* str::to_lowercase on the filesystem names above.
to_lowercase(s) ==
    CASE s \in {"ext4", "EXT4", "Ext4"} -> "ext4"
      [] OTHER -> s

\* The names whose bytes are valid UTF-8; every path and program name the
\* steps build is one.
Utf8Names ==
    {Device, Root, "mkfs.ext4", "mount", "umount", "sync", "--bind", "cat", "sh", "-c", "wc"}
      \cup {BindSources[k] : k \in 1..Len(BindSources)}
      \cup {BindDest(BindSources[k]) : k \in 1..Len(BindSources)}

\* OsStr::to_string_lossy / Path::display rendered to a String.
to_string_lossy(s) ==
    IF s \in Utf8Names THEN s ELSE "<U+FFFD>"

\* --- results

Pending == [tag |-> "None", kind |-> "", program |-> "", status |-> 0]

\* Ok(()).
OkUnit == [tag |-> "Ok", kind |-> "Unit", program |-> "", status |-> 0]

\* Ok(Output) with the child's exit status.
OkOutput(status) == [tag |-> "Ok", kind |-> "Output", program |-> "", status |-> status]

\* Err(Error::CommandFailed { program, status }).
CommandFailed(program, status) ==
    [tag |-> "Err", kind |-> "CommandFailed", program |-> program, status |-> status]

\* Err(Error::IO(..)) raised by the named operation.
IoError(op) == [tag |-> "Err", kind |-> "Io", program |-> op, status |-> 0]

\* ExitStatus::success.
success(status) == status = 0

\* --- commands and steps

NoInput == [some |-> FALSE, bytes |-> <<>>]

SomeInput(bytes) == [some |-> TRUE, bytes |-> bytes]

\* A tokio Command: program, argument vector, and whether the program reads
\* its stdin to end-of-file before it exits.
Cmd(program, args, needsEof) ==
    [program |-> program, args |-> args, needsEof |-> needsEof]

NoCmd == Cmd("", <<>>, FALSE)

StepRec(kind, src, dst, fs) == [kind |-> kind, src |-> src, dst |-> dst, fs |-> fs]

NoStep == StepRec("", "", "", "")

FormatPartitionStep(path, fs) == StepRec("FormatPartition", path, "", fs)

MountPartitionStep(path, mountpoint) == StepRec("MountPartition", path, mountpoint, "")

BindMountStep(source, dest) == StepRec("BindMount", source, dest, "")

UnmountStep(mountpoint) == StepRec("Unmount", "", mountpoint, "")

SyncFSStep == StepRec("SyncFS", "", "", "")

\* --- the compiled plan

\* Forward steps: format and mount the root partition, then n bind mounts.
PlanSteps(fs, n) ==
    <<FormatPartitionStep(Device, fs), MountPartitionStep(Device, Root)>>
      \o [k \in 1..n |-> BindMountStep(BindSources[k], BindDest(BindSources[k]))]

\* Cleanups: the unmounts in reverse order of establishment, then SyncFS.
PlanCleanups(n) ==
    [k \in 1..n |-> UnmountStep(BindDest(BindSources[n + 1 - k]))]
      \o <<UnmountStep(Root), SyncFSStep>>

\* ------------------------------------------------------------------- state

VARIABLES
    steps,      \* the forward plan
    cleanups,   \* the cleanup plan
    phase,      \* driver: Running, Cleaning, Done, Aborted, Panicked; Harness
    idx,        \* index of the current step in its list
    cur,        \* the step whose execute is in progress
    epc,        \* position in execute: idle, execute, await, returned
    stepResult, \* what execute returned
    runResult,  \* what main returned
    call,       \* the context call in progress
    child,      \* the child process of the call
    orphans,    \* child handles dropped without a wait
    os,         \* mount table, directories, formatted devices
    log,        \* history: what was executed, spawned, exited, returned
    ncalls      \* direct calls made by the harness

vars ==
    <<steps, cleanups, phase, idx, cur, epc, stepResult, runResult, call, child,
      orphans, os, log, ncalls>>

NoCall ==
    [fn |-> "", cmd |-> NoCmd, input |-> NoInput, pc |-> "none", result |-> Pending,
     spawned |-> FALSE, failed |-> ""]

NoChild ==
    [state |-> "none", program |-> "", args |-> <<>>, needsEof |-> FALSE,
     stdinOpen |-> FALSE, received |-> <<>>, consumed |-> 0, outbuf |-> <<>>,
     status |-> 0, outcome |-> "", waited |-> FALSE]

\* A history entry, stamped with the driver's position.
Event(ev, program, r) ==
    [ev |-> ev, phase |-> phase, idx |-> idx, program |-> program,
     tag |-> r.tag, kind |-> r.kind, errprog |-> r.program, status |-> r.status]

\* How a waited-for child ended, as a history entry's payload.
Exit(c) == [tag |-> "Exit", kind |-> c.outcome, program |-> "", status |-> c.status]

\* ------------------------------------------------------------- environment

\* What a running tool may do when it exits: its status, why, and the
\* operating-system state it leaves.
ChildOutcomes(c, o) ==
    LET arg == IF Len(c.args) > 0 THEN c.args[Len(c.args)] ELSE ""
        Out(status, outcome, o2) == [status |-> status, outcome |-> outcome, os |-> o2]
    IN  CASE c.program = "mkfs.ext4" ->
               {Out(0, "ok", [o EXCEPT !.formatted = @ \cup {arg}]), Out(1, "fail", o)}
          [] c.program = "mount" ->
               {Out(0, "ok", [o EXCEPT !.mounted = @ \cup {arg}]), Out(32, "fail", o)}
          [] c.program = "umount" ->
               IF arg \notin o.mounted
               THEN {Out(32, "notmounted", o)}
               ELSE IF \E q \in o.mounted : Nested(arg, q)
                    THEN {Out(32, "busy", o)}
                    ELSE {Out(0, "ok", [o EXCEPT !.mounted = @ \ {arg}]),
                          Out(32, "busy", o)}
          [] c.program = "sync" -> {Out(0, "ok", o), Out(1, "fail", o)}
          [] OTHER -> {Out(0, "ok", o), Out(1, "fail", o), Out(2, "fail", o)}

\* The child terminates.  A program that reads its stdin to end-of-file
\* does so only once the write end of its stdin pipe is closed.
ChildExit ==
    /\ child.state = "running"
    /\ child.needsEof => ~child.stdinOpen
    /\ \E out \in ChildOutcomes(child, os) :
         /\ child' = [child EXCEPT !.state = "exited", !.status = out.status,
                                   !.outcome = out.outcome]
         /\ os' = out.os
    /\ UNCHANGED <<steps, cleanups, phase, idx, cur, epc, stepResult, runResult,
                   call, orphans, log, ncalls>>

\* -------------------------------------------------------- execution context

\* A freshly spawned child of cmd; piped says whether the parent holds the
\* write end of its stdin.
Spawned(cmd, piped) ==
    [state |-> "running", program |-> cmd.program, args |-> cmd.args,
     needsEof |-> cmd.needsEof, stdinOpen |-> piped, received |-> <<>>,
     consumed |-> 0, outbuf |-> <<>>, status |-> 0, outcome |-> "",
     waited |-> FALSE]

\* The call record at entry of a context operation.
Enter(fn, cmd, input) ==
    [fn |-> fn, cmd |-> cmd, input |-> input, pc |-> "spawn", result |-> Pending,
     spawned |-> FALSE, failed |-> ""]

\* The call record when the operation returns r; failed names the operation
\* whose I/O error is propagated, if any.
Return(c, r, failed) ==
    [c EXCEPT !.pc = "returned", !.result = r, !.failed = failed]

\* Mutant of RunCommandResult: the exit status is not looked at.
RunCommandResultUnchecked(cmd, status) == OkUnit

\* run_command, after the wait: the status decides the result.
RunCommandResult(cmd, status) ==
    IF ~success(status)
    THEN CommandFailed(to_string_lossy(cmd.program), status)
    ELSE OkUnit

\* run_command: cmd.spawn()?
RunCommandSpawn ==
    /\ call.fn = "run_command"
    /\ call.pc = "spawn"
    /\ \/ /\ call' = Return(call, IoError("spawn"), "spawn")
          /\ UNCHANGED <<child, log>>
       \/ /\ call' = [call EXCEPT !.pc = "wait", !.spawned = TRUE]
          /\ child' = Spawned(call.cmd, FALSE)
          /\ log' = Append(log, Event("spawn", call.cmd.program, Pending))
    /\ UNCHANGED <<steps, cleanups, phase, idx, cur, epc, stepResult, runResult,
                   orphans, os, ncalls>>

\* run_command: .wait().await? and the status check.
RunCommandWait ==
    /\ call.fn = "run_command"
    /\ call.pc = "wait"
    /\ \/ /\ child.state = "exited"
          /\ child' = [child EXCEPT !.waited = TRUE]
          /\ call' = Return(call, RunCommandResult(call.cmd, child.status), "")
          /\ log' = Append(log, Event("waited", child.program, Exit(child)))
       \/ /\ call' = Return(call, IoError("wait"), "wait")
          /\ UNCHANGED <<child, log>>
    /\ UNCHANGED <<steps, cleanups, phase, idx, cur, epc, stepResult, runResult,
                   orphans, os, ncalls>>

\* run_command_captured: the three pipes are set up and cmd.spawn()?; the
\* stdin handle is taken from the child (always there: stdin is piped).
CapturedSpawn ==
    /\ call.fn = "run_command_captured"
    /\ call.pc = "spawn"
    /\ \/ /\ call' = Return(call, IoError("spawn"), "spawn")
          /\ UNCHANGED <<child, log>>
       \/ /\ call' = [call EXCEPT !.pc = "write", !.spawned = TRUE]
          /\ child' = Spawned(call.cmd, TRUE)
          /\ log' = Append(log, Event("spawn", call.cmd.program, Pending))
    /\ UNCHANGED <<steps, cleanups, phase, idx, cur, epc, stepResult, runResult,
                   orphans, os, ncalls>>

\* Mutant of DropStdin: the stdin handle is kept.
KeepStdin(c) == c

\* drop(stdin): the write end of the child's stdin pipe is closed.
DropStdin(c) == [c EXCEPT !.stdinOpen = FALSE]

\* run_command_captured: if let Some(input) { stdin.write_all(..).await? }.
\* write_all of no bytes makes no write and cannot fail; a failing write_all
\* has written a proper prefix, and the early return drops stdin and the
\* child handle, the child not waited for.
CapturedWrite ==
    /\ call.fn = "run_command_captured"
    /\ call.pc = "write"
    /\ \/ /\ ~call.input.some
          /\ call' = [call EXCEPT !.pc = "drop"]
          /\ UNCHANGED <<child, orphans>>
       \/ /\ call.input.some
          /\ child' = [child EXCEPT !.received = call.input.bytes]
          /\ call' = [call EXCEPT !.pc = "drop"]
          /\ UNCHANGED orphans
       \/ /\ call.input.some
          /\ \E n \in 0..(Len(call.input.bytes) - 1) :
               child' = DropStdin([child EXCEPT !.received = SubSeq(call.input.bytes, 1, n)])
          /\ call' = Return(call, IoError("write"), "write")
          /\ orphans' = orphans + 1
    /\ UNCHANGED <<steps, cleanups, phase, idx, cur, epc, stepResult, runResult,
                   os, log, ncalls>>

\* run_command_captured: drop(stdin).
CapturedDrop ==
    /\ call.fn = "run_command_captured"
    /\ call.pc = "drop"
    /\ child' = DropStdin(child)
    /\ call' = [call EXCEPT !.pc = "wait"]
    /\ UNCHANGED <<steps, cleanups, phase, idx, cur, epc, stepResult, runResult,
                   orphans, os, log, ncalls>>

\* Mutant of CapturedResult: a non-success status is made an error, as
\* run_command does.
CapturedResultChecked(cmd, status) ==
    IF ~success(status)
    THEN CommandFailed(to_string_lossy(cmd.program), status)
    ELSE OkOutput(status)

\* run_command_captured, after the wait: the output is returned whatever
\* the status.
CapturedResult(cmd, status) == OkOutput(status)

\* run_command_captured: ps.wait_with_output().await? and Ok(output).
CapturedWait ==
    /\ call.fn = "run_command_captured"
    /\ call.pc = "wait"
    /\ \/ /\ child.state = "exited"
          /\ child' = [child EXCEPT !.waited = TRUE]
          /\ call' = Return(call, CapturedResult(call.cmd, child.status), "")
          /\ log' = Append(log, Event("waited", child.program, Exit(child)))
       \/ /\ call' = Return(call, IoError("wait"), "wait")
          /\ UNCHANGED <<child, log>>
    /\ UNCHANGED <<steps, cleanups, phase, idx, cur, epc, stepResult, runResult,
                   orphans, os, ncalls>>

\* ------------------------------------------------------------------- steps

\* Mutant of FormatCommand: a name that is not matched falls back to
\* mkfs.ext4.
FormatCommandDefaulting(step) ==
    Cmd("mkfs.ext4", <<to_string_lossy(step.src)>>, FALSE)

\* FormatPartition::execute, the match on the lower-cased filesystem name:
\* the tool and its arguments, or NoCmd where the match is unimplemented!().
FormatCommand(step) ==
    IF to_lowercase(step.fs) = "ext4"
    THEN Cmd("mkfs.ext4", <<to_string_lossy(step.src)>>, FALSE)
    ELSE NoCmd

\* MountPartition::execute: mount <source> <dest>.
MountCommand(step) ==
    Cmd("mount", <<to_string_lossy(step.src), to_string_lossy(step.dst)>>, FALSE)

\* Mutant of BindCommand: the --bind flag is left out.
BindCommandNoFlag(step) ==
    Cmd("mount", <<to_string_lossy(step.src), to_string_lossy(step.dst)>>, FALSE)

\* BindMount::execute: mount --bind <source> <dest>.
BindCommand(step) ==
    Cmd("mount", <<"--bind", to_string_lossy(step.src), to_string_lossy(step.dst)>>, FALSE)

\* Unmount::execute: umount <dest>.
UnmountCommand(step) == Cmd("umount", <<to_string_lossy(step.dst)>>, FALSE)

\* SyncFS::execute: sync.
SyncCommand == Cmd("sync", <<>>, FALSE)

\* execute returns r and stops there.
Returned(r) ==
    /\ stepResult' = r
    /\ epc' = "returned"
    /\ log' = Append(log, Event("return", cur.kind, r))

\* FormatPartition::execute up to its call of run_command_captured.
FormatPartitionExecute ==
    /\ epc = "execute"
    /\ cur.kind = "FormatPartition"
    /\ IF FormatCommand(cur) = NoCmd
       THEN /\ phase' = "Panicked"
            /\ epc' = "panicked"
            /\ UNCHANGED call
       ELSE /\ call' = Enter("run_command_captured", FormatCommand(cur), NoInput)
            /\ epc' = "await"
            /\ UNCHANGED phase
    /\ UNCHANGED <<steps, cleanups, idx, cur, stepResult, runResult, child, orphans,
                   os, log, ncalls>>

\* Mutant of MountPartitionExecute: the mountpoint is not created.
MountPartitionExecuteNoCreate ==
    /\ epc = "execute"
    /\ cur.kind = "MountPartition"
    /\ call' = Enter("run_command_captured", MountCommand(cur), NoInput)
    /\ epc' = "await"
    /\ UNCHANGED <<steps, cleanups, phase, idx, cur, stepResult, runResult, child,
                   orphans, os, log, ncalls>>

\* MountPartition::execute up to its call of run_command_captured:
\* create_dir_all(mountpoint)? and the command.
MountPartitionExecute ==
    /\ epc = "execute"
    /\ cur.kind = "MountPartition"
    /\ \/ /\ Returned(IoError("create_dir_all"))
          /\ UNCHANGED <<call, os>>
       \/ /\ os' = [os EXCEPT !.dirs = @ \cup {cur.dst}]
          /\ call' = Enter("run_command_captured", MountCommand(cur), NoInput)
          /\ epc' = "await"
          /\ UNCHANGED <<stepResult, log>>
    /\ UNCHANGED <<steps, cleanups, phase, idx, cur, runResult, child, orphans, ncalls>>

\* BindMount::execute up to its call of run_command_captured:
\* create_dir_all(dest)? and the command.
BindMountExecute ==
    /\ epc = "execute"
    /\ cur.kind = "BindMount"
    /\ \/ /\ Returned(IoError("create_dir_all"))
          /\ UNCHANGED <<call, os>>
       \/ /\ os' = [os EXCEPT !.dirs = @ \cup {cur.dst}]
          /\ call' = Enter("run_command_captured", BindCommand(cur), NoInput)
          /\ epc' = "await"
          /\ UNCHANGED <<stepResult, log>>
    /\ UNCHANGED <<steps, cleanups, phase, idx, cur, runResult, child, orphans, ncalls>>

\* Unmount::execute up to its call of run_command_captured.
UnmountExecute ==
    /\ epc = "execute"
    /\ cur.kind = "Unmount"
    /\ call' = Enter("run_command_captured", UnmountCommand(cur), NoInput)
    /\ epc' = "await"
    /\ UNCHANGED <<steps, cleanups, phase, idx, cur, stepResult, runResult, child,
                   orphans, os, log, ncalls>>

\* SyncFS::execute up to its call of run_command_captured.
SyncFSExecute ==
    /\ epc = "execute"
    /\ cur.kind = "SyncFS"
    /\ call' = Enter("run_command_captured", SyncCommand, NoInput)
    /\ epc' = "await"
    /\ UNCHANGED <<steps, cleanups, phase, idx, cur, stepResult, runResult, child,
                   orphans, os, log, ncalls>>

\* FormatPartition::execute after the call: let _ = ..?; Ok(()).
FormatPartitionResult(r) == IF r.tag = "Err" THEN r ELSE OkUnit

\* MountPartition::execute after the call: let _ = ..?; Ok(()).
MountPartitionResult(r) == IF r.tag = "Err" THEN r ELSE OkUnit

\* BindMount::execute after the call: let _ = ..?; Ok(()).
BindMountResult(r) == IF r.tag = "Err" THEN r ELSE OkUnit

\* Mutant of UnmountResult: a non-success status of umount is made
\* CommandFailed.
UnmountResultChecked(r) ==
    IF r.tag = "Err"
    THEN r
    ELSE IF ~success(r.status) THEN CommandFailed("umount", r.status) ELSE OkUnit

\* Unmount::execute after the call: let _ = ..?; Ok(()).
UnmountResult(r) == IF r.tag = "Err" THEN r ELSE OkUnit

\* Mutant of SyncFSResult: the call's error is propagated with ?.
SyncFSResultPropagating(r) == IF r.tag = "Err" THEN r ELSE OkUnit

\* SyncFS::execute after the call: let _ = ..; Ok(()).
SyncFSResult(r) == OkUnit

\* What execute of step returns when its context call returned r.
StepResult(step, r) ==
    CASE step.kind = "FormatPartition" -> FormatPartitionResult(r)
      [] step.kind = "MountPartition" -> MountPartitionResult(r)
      [] step.kind = "BindMount" -> BindMountResult(r)
      [] step.kind = "Unmount" -> UnmountResult(r)
      [] OTHER -> SyncFSResult(r)

\* execute resumes when run_command_captured has returned, and returns.
ExecuteReturn ==
    /\ epc = "await"
    /\ call.pc = "returned"
    /\ Returned(StepResult(cur, call.result))
    /\ UNCHANGED <<steps, cleanups, phase, idx, cur, runResult, call, child, orphans,
                   os, ncalls>>

\* ------------------------------------------------------------------ driver

\* main, for step in steps: the next forward step's execute is invoked.
ForwardStep ==
    /\ phase = "Running"
    /\ epc = "idle"
    /\ idx <= Len(steps)
    /\ cur' = steps[idx]
    /\ epc' = "execute"
    /\ log' = Append(log, Event("execute", steps[idx].kind, Pending))
    /\ UNCHANGED <<steps, cleanups, phase, idx, stepResult, runResult, call, child,
                   orphans, os, ncalls>>

\* Mutant of ForwardQuestion: a step that returned Err is executed again.
ForwardQuestionRetrying ==
    /\ phase = "Running"
    /\ epc = "returned"
    /\ idx' = IF stepResult.tag = "Err" THEN idx ELSE idx + 1
    /\ epc' = "idle"
    /\ UNCHANGED <<steps, cleanups, phase, cur, stepResult, runResult, call, child,
                   orphans, os, log, ncalls>>

\* Mutant of ForwardQuestion: the result of execute is discarded (let _ =)
\* and the loop goes on.
ForwardQuestionDiscarding ==
    /\ phase = "Running"
    /\ epc = "returned"
    /\ idx' = idx + 1
    /\ epc' = "idle"
    /\ UNCHANGED <<steps, cleanups, phase, cur, stepResult, runResult, call, child,
                   orphans, os, log, ncalls>>

\* main, step.execute(&context).await?: an Err is returned from main, an
\* Ok moves to the next forward step.
ForwardQuestion ==
    /\ phase = "Running"
    /\ epc = "returned"
    /\ IF stepResult.tag = "Err"
       THEN /\ phase' = "Aborted"
            /\ runResult' = stepResult
            /\ UNCHANGED idx
       ELSE /\ idx' = idx + 1
            /\ UNCHANGED <<phase, runResult>>
    /\ epc' = "idle"
    /\ UNCHANGED <<steps, cleanups, cur, stepResult, call, child, orphans, os, log,
                   ncalls>>

\* main: the forward loop is exhausted, the cleanup loop begins.
StartCleaning ==
    /\ phase = "Running"
    /\ epc = "idle"
    /\ idx > Len(steps)
    /\ phase' = "Cleaning"
    /\ idx' = 1
    /\ UNCHANGED <<steps, cleanups, cur, epc, stepResult, runResult, call, child,
                   orphans, os, log, ncalls>>

\* main, for cleanup in cleanups: the next cleanup's execute is invoked.
CleanupStep ==
    /\ phase = "Cleaning"
    /\ epc = "idle"
    /\ idx <= Len(cleanups)
    /\ cur' = cleanups[idx]
    /\ epc' = "execute"
    /\ log' = Append(log, Event("execute", cleanups[idx].kind, Pending))
    /\ UNCHANGED <<steps, cleanups, phase, idx, stepResult, runResult, call, child,
                   orphans, os, ncalls>>

\* main, cleanup.execute(&context).await?: an Err is returned from main,
\* an Ok moves to the next cleanup.
CleanupQuestion ==
    /\ phase = "Cleaning"
    /\ epc = "returned"
    /\ IF stepResult.tag = "Err"
       THEN /\ phase' = "Aborted"
            /\ runResult' = stepResult
            /\ UNCHANGED idx
       ELSE /\ idx' = idx + 1
            /\ UNCHANGED <<phase, runResult>>
    /\ epc' = "idle"
    /\ UNCHANGED <<steps, cleanups, cur, stepResult, call, child, orphans, os, log,
                   ncalls>>

\* main: the cleanup loop is exhausted; the success message and Ok(()).
Finish ==
    /\ phase = "Cleaning"
    /\ epc = "idle"
    /\ idx > Len(cleanups)
    /\ phase' = "Done"
    /\ runResult' = OkUnit
    /\ UNCHANGED <<steps, cleanups, idx, cur, epc, stepResult, call, child, orphans,
                   os, log, ncalls>>

\* ---------------------------------------------------------- specifications

NoOs == [mounted |-> {}, dirs |-> {}, formatted |-> {}]

\* A run of the driver starts with a compiled plan and nothing done; the
\* root directory may be there already from an earlier run.
Init ==
    /\ \E fs \in FsNames, n \in 0..MaxBinds :
         /\ steps = PlanSteps(fs, n)
         /\ cleanups = PlanCleanups(n)
    /\ phase = "Running"
    /\ idx = 1
    /\ cur = NoStep
    /\ epc = "idle"
    /\ stepResult = Pending
    /\ runResult = Pending
    /\ call = NoCall
    /\ child = NoChild
    /\ orphans = 0
    /\ os \in {NoOs, [NoOs EXCEPT !.dirs = {Root}]}
    /\ log = <<>>
    /\ ncalls = 0

Next ==
    \/ ForwardStep
    \/ ForwardQuestion
    \/ StartCleaning
    \/ CleanupStep
    \/ CleanupQuestion
    \/ Finish
    \/ FormatPartitionExecute
    \/ MountPartitionExecute
    \/ BindMountExecute
    \/ UnmountExecute
    \/ SyncFSExecute
    \/ ExecuteReturn
    \/ CapturedSpawn
    \/ CapturedWrite
    \/ CapturedDrop
    \/ CapturedWait
    \/ ChildExit

Spec == Init /\ [][Next]_vars

\* --- direct calls of the context operations

Bytes == {"a", "b"}

\* The byte strings of at most n bytes.
RECURSIVE BytesUpTo(_)
BytesUpTo(n) ==
    IF n = 0
    THEN {<<>>}
    ELSE BytesUpTo(n - 1)
           \cup {Append(b, c) : b \in {x \in BytesUpTo(n - 1) : Len(x) = n - 1}, c \in Bytes}

Inputs == {NoInput} \cup {SomeInput(b) : b \in BytesUpTo(MaxInput)}

\* A program that reads its stdin to end-of-file, and one that does not.
HarnessCmds == {Cmd("cat", <<>>, TRUE), Cmd("sh", <<"-c">>, FALSE)}

InitCtx ==
    /\ steps = <<>>
    /\ cleanups = <<>>
    /\ phase = "Harness"
    /\ idx = 0
    /\ cur = NoStep
    /\ epc = "idle"
    /\ stepResult = Pending
    /\ runResult = Pending
    /\ call = NoCall
    /\ child = NoChild
    /\ orphans = 0
    /\ os = NoOs
    /\ log = <<>>
    /\ ncalls = 0

\* A caller invokes run_command(cmd).
CallRunCommand ==
    /\ phase = "Harness"
    /\ call.pc \in {"none", "returned"}
    /\ ncalls < MaxCalls
    /\ \E cmd \in HarnessCmds : call' = Enter("run_command", cmd, NoInput)
    /\ ncalls' = ncalls + 1
    /\ UNCHANGED <<steps, cleanups, phase, idx, cur, epc, stepResult, runResult,
                   child, orphans, os, log>>

\* A caller invokes run_command_captured(cmd, input).
CallCaptured ==
    /\ phase = "Harness"
    /\ call.pc \in {"none", "returned"}
    /\ ncalls < MaxCalls
    /\ \E cmd \in HarnessCmds, input \in Inputs :
         call' = Enter("run_command_captured", cmd, input)
    /\ ncalls' = ncalls + 1
    /\ UNCHANGED <<steps, cleanups, phase, idx, cur, epc, stepResult, runResult,
                   child, orphans, os, log>>

NextCtx ==
    \/ CallRunCommand
    \/ CallCaptured
    \/ RunCommandSpawn
    \/ RunCommandWait
    \/ CapturedSpawn
    \/ CapturedWrite
    \/ CapturedDrop
    \/ CapturedWait
    \/ ChildExit

SpecCtx == InitCtx /\ [][NextCtx]_vars

\* --- run_command_captured against bounded pipes

\* Inputs of one repeated byte, up to one byte more than the child's two
\* pipes hold together.
PipeInputs ==
    {NoInput} \cup {SomeInput([k \in 1..n |-> "a"]) : n \in 0..(2 * PipeCap + 1)}

\* Programs that terminate after reading their stdin to end-of-file: cat
\* copies each byte to its stdout as it reads it, wc writes nothing.
PipeCmds == {Cmd("cat", <<>>, TRUE), Cmd("wc", <<"-c">>, TRUE)}

\* A caller invokes run_command_captured(cmd, input).
PipeCall ==
    /\ phase = "Harness"
    /\ call.pc \in {"none", "returned"}
    /\ ncalls < MaxCalls
    /\ \E cmd \in PipeCmds, input \in PipeInputs :
         call' = Enter("run_command_captured", cmd, input)
    /\ ncalls' = ncalls + 1
    /\ UNCHANGED <<steps, cleanups, phase, idx, cur, epc, stepResult, runResult,
                   child, orphans, os, log>>

\* run_command_captured: if let Some(input) { stdin.write_all(..).await? },
\* one byte at a time: a byte is written only while the stdin pipe has
\* room, and write_all is over with the last byte.
PipeWrite ==
    /\ call.fn = "run_command_captured"
    /\ call.pc = "write"
    /\ IF ~call.input.some \/ call.input.bytes = <<>>
       THEN /\ call' = [call EXCEPT !.pc = "drop"]
            /\ UNCHANGED child
       ELSE LET n == Len(child.received)
            IN  /\ n < Len(call.input.bytes)
                /\ n - child.consumed < PipeCap
                /\ child' = [child EXCEPT !.received = Append(@, call.input.bytes[n + 1])]
                /\ call' = [call EXCEPT
                              !.pc = IF n + 1 = Len(call.input.bytes) THEN "drop" ELSE "write"]
    /\ UNCHANGED <<steps, cleanups, phase, idx, cur, epc, stepResult, runResult,
                   orphans, os, log, ncalls>>

\* The child reads one byte of its stdin; cat writes it to its stdout, and
\* does so only while the stdout pipe has room.
PipeChildRead ==
    /\ child.state = "running"
    /\ child.consumed < Len(child.received)
    /\ child.program = "cat" => Len(child.outbuf) < PipeCap
    /\ child' = [child EXCEPT
                   !.consumed = @ + 1,
                   !.outbuf = IF child.program = "cat"
                              THEN Append(@, child.received[child.consumed + 1])
                              ELSE @]
    /\ UNCHANGED <<steps, cleanups, phase, idx, cur, epc, stepResult, runResult,
                   call, orphans, os, log, ncalls>>

\* The child sees end-of-file on its stdin, every byte read, and exits.
PipeChildExit ==
    /\ child.state = "running"
    /\ ~child.stdinOpen
    /\ child.consumed = Len(child.received)
    /\ \E status \in {0, 1} :
         child' = [child EXCEPT !.state = "exited", !.status = status,
                                !.outcome = IF success(status) THEN "ok" ELSE "fail"]
    /\ UNCHANGED <<steps, cleanups, phase, idx, cur, epc, stepResult, runResult,
                   call, orphans, os, log, ncalls>>

\* run_command_captured: ps.wait_with_output() reads the child's stdout.
PipeReadOutput ==
    /\ call.fn = "run_command_captured"
    /\ call.pc = "wait"
    /\ child.outbuf # <<>>
    /\ child' = [child EXCEPT !.outbuf = Tail(@)]
    /\ UNCHANGED <<steps, cleanups, phase, idx, cur, epc, stepResult, runResult,
                   call, orphans, os, log, ncalls>>

\* run_command_captured: ps.wait_with_output().await? is over when the
\* child has exited and its stdout is read to the end; Ok(output).
PipeWait ==
    /\ call.fn = "run_command_captured"
    /\ call.pc = "wait"
    /\ child.state = "exited"
    /\ child.outbuf = <<>>
    /\ child' = [child EXCEPT !.waited = TRUE]
    /\ call' = Return(call, CapturedResult(call.cmd, child.status), "")
    /\ log' = Append(log, Event("waited", child.program, Exit(child)))
    /\ UNCHANGED <<steps, cleanups, phase, idx, cur, epc, stepResult, runResult,
                   orphans, os, ncalls>>

NextPipe ==
    \/ PipeCall
    \/ CapturedSpawn
    \/ PipeWrite
    \/ CapturedDrop
    \/ PipeChildRead
    \/ PipeChildExit
    \/ PipeReadOutput
    \/ PipeWait

\* The runtime polls the call's future, and the operating system runs the
\* child, whenever either can make a step.
SpecPipe ==
    /\ InitCtx
    /\ [][NextPipe]_vars
    /\ WF_vars(CapturedSpawn)
    /\ WF_vars(PipeWrite)
    /\ WF_vars(CapturedDrop)
    /\ WF_vars(PipeChildRead)
    /\ WF_vars(PipeChildExit)
    /\ WF_vars(PipeReadOutput)
    /\ WF_vars(PipeWait)

\* ================================================================== claims

\* The error value a history entry of an Err return stands for.
ErrOf(e) == [tag |-> "Err", kind |-> e.kind, program |-> e.errprog, status |-> e.status]

\* C1: whenever mkfs.ext4 was spawned by FormatPartition::execute and exited
\* with a non-success status, execute returns CommandFailed{"mkfs.ext4",
\* status}; it returns Ok only when the tool exited successfully.
C1_FormatReportsCommandFailed ==
    (/\ epc = "returned"
     /\ cur.kind = "FormatPartition"
     /\ call.spawned
     /\ child.waited)
      => /\ ~success(child.status)
              => stepResult = CommandFailed("mkfs.ext4", child.status)
         /\ stepResult.tag = "Ok" => success(child.status)

\* C2: once the command of a forward step has exited with a non-success
\* status, no later forward step is executed and the run never reaches Done.
C2_FailedCommandAbortsRun ==
    \A k \in DOMAIN log :
        (log[k].ev = "waited" /\ log[k].phase = "Running" /\ ~success(log[k].status))
          => /\ phase # "Done"
             /\ \A j \in DOMAIN log :
                    (log[j].ev = "execute" /\ log[j].phase = "Running")
                      => log[j].idx <= log[k].idx

\* Cleanup i had its execute invoked.
CleanupExecuted(i) ==
    \E k \in DOMAIN log :
        log[k].ev = "execute" /\ log[k].phase = "Cleaning" /\ log[k].idx = i

\* C3: when a run in which a forward step started has ended (main returned
\* Ok or Err), every cleanup was executed and no mount is still active.
C3_CleanupsAlwaysRun ==
    (/\ phase \in {"Done", "Aborted"}
     /\ \E k \in DOMAIN log : log[k].ev = "execute" /\ log[k].phase = "Running")
      => /\ \A i \in 1..Len(cleanups) : CleanupExecuted(i)
         /\ os.mounted = {}

\* C4: once execute of forward step i has returned Err, no forward step of
\* greater index is executed, and main returns that very error: the driver
\* is either at the ? of step i holding it, or Aborted with it as result.
C4_FirstErrorAborts ==
    \A k \in DOMAIN log :
        (log[k].ev = "return" /\ log[k].phase = "Running" /\ log[k].tag = "Err")
          => /\ \A j \in DOMAIN log :
                    (log[j].ev = "execute" /\ log[j].phase = "Running")
                      => log[j].idx <= log[k].idx
             /\ \/ /\ phase = "Running"
                   /\ epc = "returned"
                   /\ idx = log[k].idx
                   /\ stepResult = ErrOf(log[k])
                \/ /\ phase = "Aborted"
                   /\ idx = log[k].idx
                   /\ runResult = ErrOf(log[k])

\* C4 witness: a run aborted by the error of a forward step that was not
\* the last one.
C4_Witness ==
    /\ phase = "Aborted"
    /\ runResult.tag = "Err"
    /\ idx < Len(steps)
    /\ \E k \in DOMAIN log :
          log[k].ev = "return" /\ log[k].phase = "Running" /\ log[k].tag = "Err"

\* C5: run_command returns CommandFailed{program, status} exactly when the
\* child was spawned and waited for and its status is not success, with the
\* command's program name and the observed status; Ok(()) when the status
\* is success; and an I/O error when the spawn or the wait failed.
C5_RunCommandResult ==
    (call.fn = "run_command" /\ call.pc = "returned")
      => /\ (call.spawned /\ child.waited /\ ~success(child.status))
              => call.result = CommandFailed(call.cmd.program, child.status)
         /\ (call.spawned /\ child.waited /\ success(child.status))
              => call.result = OkUnit
         /\ (~call.spawned \/ ~child.waited)
              => (call.result.tag = "Err" /\ call.result.kind = "Io")

\* C5 witness: run_command has returned CommandFailed for a child that
\* exited with status 2.
C5_Witness ==
    /\ call.fn = "run_command"
    /\ call.pc = "returned"
    /\ child.waited
    /\ child.status = 2
    /\ call.result.kind = "CommandFailed"

\* C6: run_command_captured returns Ok(output) with the child's status for
\* every child spawned and waited for, whatever that status; an Err it
\* returns is an I/O error of a call in which the spawn, the write of the
\* input or the wait failed.
C6_CapturedResult ==
    (call.fn = "run_command_captured" /\ call.pc = "returned")
      => /\ (call.spawned /\ child.waited) => call.result = OkOutput(child.status)
         /\ call.result.tag = "Err"
              => /\ call.result.kind = "Io"
                 /\ \/ ~call.spawned
                    \/ call.input.some /\ child.received # call.input.bytes
                    \/ ~child.waited

\* C6 witness: run_command_captured has returned Ok for a child that exited
\* with a non-success status.
C6_Witness ==
    /\ call.fn = "run_command_captured"
    /\ call.pc = "returned"
    /\ call.spawned
    /\ child.waited
    /\ ~success(child.status)
    /\ call.result.tag = "Ok"

\* C7: in run_command_captured the child's stdin is closed whenever the
\* call is waiting for the child and whenever it has returned after a
\* successful spawn; with input given, the whole input was written by the
\* time the call waits, and so when it returns Ok.
C7_StdinClosed ==
    call.fn = "run_command_captured"
      => /\ (call.pc = "returned" /\ call.spawned) => ~child.stdinOpen
         /\ call.pc = "wait" => ~child.stdinOpen
         /\ (call.pc = "wait" /\ call.input.some)
              => child.received = call.input.bytes
         /\ (call.pc = "returned" /\ call.result.tag = "Ok" /\ call.input.some)
              => child.received = call.input.bytes

\* C7 witness: a call with non-empty input has returned Ok for a child that
\* read its stdin to end-of-file and then failed.
C7_Witness ==
    /\ call.fn = "run_command_captured"
    /\ call.pc = "returned"
    /\ call.result.tag = "Ok"
    /\ call.input.some
    /\ Len(call.input.bytes) = MaxInput
    /\ child.needsEof
    /\ ~success(child.status)
    /\ ~child.stdinOpen

\* SyncFS::execute has returned.
SyncReturned ==
    \E k \in DOMAIN log : log[k].ev = "return" /\ log[k].program = "SyncFS"

\* Every step and cleanup other than SyncFS that returned, returned Ok.
OthersReturnedOk ==
    \A k \in DOMAIN log :
        (log[k].ev = "return" /\ log[k].program # "SyncFS") => log[k].tag = "Ok"

C9_UnmountNotMountedTolerated ==
    \A k \in DOMAIN log :
        (/\ log[k].ev = "waited"
         /\ log[k].program = "umount"
         /\ log[k].phase = "Cleaning"
         /\ log[k].kind = "notmounted"
         /\ ~success(log[k].status))
          => \/ /\ phase = "Cleaning"
                /\ idx = log[k].idx
                /\ epc = "await" \/ (epc = "returned" /\ stepResult = OkUnit)
             \/ /\ phase = "Cleaning"
                /\ idx = log[k].idx + 1
                /\ epc = "idle"
             \/ CleanupExecuted(log[k].idx + 1)

\* C9 witness: a run is Done, SyncFS executed, after an umount that found
\* nothing mounted.
C9_Witness ==
    /\ phase = "Done"
    /\ CleanupExecuted(Len(cleanups))
    /\ \E k \in DOMAIN log :
          /\ log[k].ev = "waited"
          /\ log[k].program = "umount"
          /\ log[k].kind = "notmounted"
          /\ ~success(log[k].status)

\* C10: when umount, spawned by Unmount::execute, has exited non-zero with
\* the target mounted and busy, execute returns an Err.
C10_UnmountBusySurfaced ==
    (/\ epc = "returned"
     /\ cur.kind = "Unmount"
     /\ call.spawned
     /\ child.waited
     /\ child.outcome = "busy"
     /\ ~success(child.status))
      => stepResult.tag = "Err"

\* A command was spawned by the step at position i of the list of phase p.
SpawnedBy(p, i) ==
    \E k \in DOMAIN log : log[k].ev = "spawn" /\ log[k].phase = p /\ log[k].idx = i

\* C11: in MountPartition::execute and BindMount::execute, once the mount
\* command is spawned the destination directory exists, created or already
\* there; and when execute has returned with the directory missing, it
\* returned the I/O error of the creation and spawned no command.
C11_DirectoryBeforeMount ==
    cur.kind \in {"MountPartition", "BindMount"}
      => /\ SpawnedBy(phase, idx) => cur.dst \in os.dirs
         /\ (epc = "returned" /\ cur.dst \notin os.dirs)
              => /\ stepResult = IoError("create_dir_all")
                 /\ ~SpawnedBy(phase, idx)

\* C11 witness: MountPartition has spawned mount, its mountpoint directory
\* in place.
C11_Witness ==
    /\ cur.kind = "MountPartition"
    /\ SpawnedBy("Running", idx)
    /\ child.program = "mount"
    /\ cur.dst \in os.dirs
    /\ steps[1].fs = "ext4"
    /\ Len(steps) = 2

\* The upper/lower-case spellings of the supported filesystem name.
Ext4Variants == {"ext4", "EXT4", "Ext4"}

\* C12: for every case variant of "ext4", FormatPartition::execute does not
\* panic and calls run_command_captured with the same command: mkfs.ext4
\* with the partition's device path as its single argument.
C12_FormatCaseInsensitive ==
    (cur.kind = "FormatPartition" /\ cur.fs \in Ext4Variants /\ epc # "execute")
      => /\ phase # "Panicked"
         /\ call.fn = "run_command_captured"
         /\ call.cmd.program = "mkfs.ext4"
         /\ call.cmd.args = <<cur.src>>

\* C12 witness: mkfs.ext4 /dev/sda2 was spawned for the mixed-case name.
C12_Witness ==
    /\ cur.kind = "FormatPartition"
    /\ cur.fs = "Ext4"
    /\ child.program = "mkfs.ext4"
    /\ child.args = <<"/dev/sda2">>
    /\ child.state = "exited"

\* C13: for a filesystem name that is no case variant of a supported one,
\* FormatPartition::execute panics: it returns nothing, main returns
\* nothing, no context call is made, no command is spawned and the device
\* is not formatted.
C13_UnsupportedPanics ==
    (cur.kind = "FormatPartition" /\ cur.fs \notin Ext4Variants /\ epc # "execute")
      => /\ phase = "Panicked"
         /\ stepResult = Pending
         /\ runResult = Pending
         /\ call = NoCall
         /\ child = NoChild
         /\ os.formatted = {}
         /\ \A k \in DOMAIN log : log[k].ev \notin {"spawn", "return"}

\* C13 witness: the run has panicked in FormatPartition for "btrfs".
C13_Witness ==
    /\ phase = "Panicked"
    /\ cur.kind = "FormatPartition"
    /\ cur.fs = "btrfs"
    /\ epc = "panicked"

\* The program the claim names for a step.
ExpectedProgram(step) ==
    CASE step.kind = "FormatPartition" -> "mkfs.ext4"
      [] step.kind = "MountPartition" -> "mount"
      [] step.kind = "BindMount" -> "mount"
      [] step.kind = "Unmount" -> "umount"
      [] OTHER -> "sync"

\* The argument vector the claim names for a step.
ExpectedArgs(step) ==
    CASE step.kind = "FormatPartition" -> <<step.src>>
      [] step.kind = "MountPartition" -> <<step.src, step.dst>>
      [] step.kind = "BindMount" -> <<"--bind", step.src, step.dst>>
      [] step.kind = "Unmount" -> <<step.dst>>
      [] OTHER -> <<>>

\* How many commands the step at position i of the list of phase p spawned.
SpawnCount(p, i) ==
    Cardinality({k \in DOMAIN log :
                    log[k].ev = "spawn" /\ log[k].phase = p /\ log[k].idx = i})

\* C14: while a step's execute is in its context call, and when it has
\* returned from it, the call is run_command_captured with no stdin input
\* and with the program and argument vector of the step's kind; the child
\* it spawned runs exactly that, and it is the only command of the step.
C14_ExactCommands ==
    (epc = "await" \/ (epc = "returned" /\ stepResult # IoError("create_dir_all")))
      => /\ call.fn = "run_command_captured"
         /\ call.input = NoInput
         /\ call.cmd.program = ExpectedProgram(cur)
         /\ call.cmd.args = ExpectedArgs(cur)
         /\ SpawnCount(phase, idx) = (IF call.spawned THEN 1 ELSE 0)
         /\ call.spawned
              => /\ child.program = ExpectedProgram(cur)
                 /\ child.args = ExpectedArgs(cur)

\* C14 witness: BindMount{source="/dev", dest="/tmp/lichen/dev"} has run
\* mount --bind /dev /tmp/lichen/dev and returned.
C14_Witness ==
    /\ epc = "returned"
    /\ cur = BindMountStep("/dev", "/tmp/lichen/dev")
    /\ child.program = "mount"
    /\ child.args = <<"--bind", "/dev", "/tmp/lichen/dev">>
    /\ child.waited
    /\ SpawnCount("Running", idx) = 1

\* The history's entries of execute being invoked and returning.
IsExecOrReturn(e) == e.ev \in {"execute", "return"}

ExecReturns == SelectSeq(log, IsExecOrReturn)

\* The running child belongs to the context call in progress, or to the
\* last call, whose wait failed, no other call having started since.
OneInFlight ==
    child.state = "running"
      => \/ epc = "await" /\ call.pc \in {"write", "drop", "wait"}
         \/ call.pc = "returned" /\ call.failed = "wait"

\* C15: invocations and returns of execute alternate, one step at a time:
\* the first is forward step 1; forward step i+1 is invoked right after
\* step i returned Ok; cleanup 1 right after the last forward step returned
\* Ok; cleanup i+1 right after cleanup i returned; every command is spawned
\* between its own step's invocation and return; and at most one command is
\* in flight.
C15_StrictlySequential ==
    /\ OneInFlight
    /\ \A j \in DOMAIN ExecReturns :
          LET e == ExecReturns[j]
          IN  IF j % 2 = 0
              THEN /\ e.ev = "return"
                   /\ e.phase = ExecReturns[j - 1].phase
                   /\ e.idx = ExecReturns[j - 1].idx
              ELSE /\ e.ev = "execute"
                   /\ IF j = 1
                      THEN e.phase = "Running" /\ e.idx = 1
                      ELSE LET r == ExecReturns[j - 1]
                           IN  \/ /\ r.phase = "Running"
                                  /\ r.tag = "Ok"
                                  /\ e.phase = "Running"
                                  /\ e.idx = r.idx + 1
                               \/ /\ r.phase = "Running"
                                  /\ r.tag = "Ok"
                                  /\ r.idx = Len(steps)
                                  /\ e.phase = "Cleaning"
                                  /\ e.idx = 1
                               \/ /\ r.phase = "Cleaning"
                                  /\ e.phase = "Cleaning"
                                  /\ e.idx = r.idx + 1
    /\ \A k \in DOMAIN log :
          log[k].ev = "spawn"
            => \E j \in 1..(k - 1) :
                  /\ log[j].ev = "execute"
                  /\ log[j].phase = log[k].phase
                  /\ log[j].idx = log[k].idx
                  /\ \A i \in (j + 1)..(k - 1) : ~IsExecOrReturn(log[i])

\* C15 witness: a run with a bind mount is Done, every step and cleanup
\* executed and returned.
C15_Witness ==
    /\ phase = "Done"
    /\ Len(steps) = 3
    /\ Len(ExecReturns) = 2 * (Len(steps) + Len(cleanups))

\* C16: no step or cleanup has its execute invoked twice, and none spawns
\* its command twice: the history holds at most one invocation and at most
\* one spawn per position of each list.
C16_AtMostOnce ==
    \A k, j \in DOMAIN log :
        (/\ k # j
         /\ log[k].ev \in {"execute", "spawn"}
         /\ log[k].ev = log[j].ev
         /\ log[k].phase = log[j].phase)
          => log[k].idx # log[j].idx

\* C16 witness: a run is Done in which mount exited non-zero, each step
\* and cleanup executed once.
C16_Witness ==
    /\ phase = "Done"
    /\ Len(steps) = 3
    /\ \E k \in DOMAIN log :
          log[k].ev = "waited" /\ log[k].program = "mount" /\ ~success(log[k].status)
    /\ Cardinality({k \in DOMAIN log : log[k].ev = "execute"})
         = Len(steps) + Len(cleanups)

\* C17: when a run has ended in which an Unmount cleanup returned an Err,
\* every cleanup after that one, SyncFS included, was executed.
C17_CleanupErrorContinues ==
    phase \in {"Done", "Aborted"}
      => \A k \in DOMAIN log :
            (/\ log[k].ev = "return"
             /\ log[k].phase = "Cleaning"
             /\ log[k].program = "Unmount"
             /\ log[k].tag = "Err")
              => \A i \in (log[k].idx + 1)..Len(cleanups) : CleanupExecuted(i)

\* C18: when run_command or run_command_captured has returned after a
\* successful spawn, the child has terminated and was waited for (unless it
\* is the wait itself that failed).
C18_ReturnsAfterWait ==
    (call.pc = "returned" /\ call.spawned /\ call.failed # "wait")
      => /\ child.state = "exited"
         /\ child.waited

\* C19: a call of run_command_captured on a child that terminates after
\* reading its stdin to end-of-file is never stuck: while the call has not
\* returned, the parent or the child can make a step.
C19_CapturedNeverStuck ==
    (call.fn = "run_command_captured" /\ call.pc \in {"spawn", "write", "drop", "wait"})
      => ENABLED NextPipe

====
